---- MODULE Spec2Model ----
(***************************************************************************)
(* Model of the Fusefy agentic API (src/api-v1):                           *)
(*   - FusefyAPITools.call_fusefy_api under its tenacity retry decorator,  *)
(*   - FusefyAPITools._manage_resource and the manage_* tool functions,    *)
(*   - SessionManager.get_session and close_session,                       *)
(*   - get_jwt_secret under functools.lru_cache and verify_jwt_token,      *)
(*   - the token-taking routes of routers/router.py.                       *)
(* Strings the code inspects character by character (endpoint paths,       *)
(* response bodies) are sequences of tokens; opaque strings are strings.   *)
(***************************************************************************)
EXTENDS Integers, Sequences, FiniteSets, TLC

VARIABLES
    pc,              \* position of the one adapter invocation in flight
    tool,            \* the manage_* tool call that started it (or a direct call)
    args,            \* the arguments call_fusefy_api was invoked with
    attempt_number,  \* tenacity's retry_state.attempt_number
    sent,            \* requests handed to session.request, in order
    slept,           \* seconds tenacity slept before each retry, in order
    fails,           \* transport failures met by this invocation so far
    met,             \* the exception the attempt just executed met, "" if none
    processed,       \* times the upstream processed a request of this invocation
    response,        \* the upstream response the last attempt received, if any
    result,          \* what the invocation handed to its caller
    session,         \* SessionManager._session and the sessions constructed so far
    jwt_in,          \* arguments of one verify_jwt_token call
    jwt_out,         \* what that call handed back
    task,            \* the inbound requests being served, one per event-loop task
    secret_cache,    \* the lru_cache of get_jwt_secret: None or the memoized value
    store,           \* the secret store: contacts begun and how each one ended
    blocking,        \* the task whose synchronous boto3 call holds the event loop, or 0
    arrivals,        \* inbound requests accepted so far
    user,            \* the call_fusefy_api attempts that use the shared session
    closer,          \* the close_session invocations
    teardown,        \* what the close_session invocations found and did
    docs,            \* the API description get_api_documentation handed back
    listing,         \* what list_available_endpoints returned for it
    tool_call,       \* a tool call the language model asked for
    executed         \* what executing that tool call did and handed back

callVars == <<pc, tool, args, attempt_number, sent, slept, fails, met, processed, response,
              result>>
jwtVars == <<jwt_in, jwt_out>>
routeVars == <<task, secret_cache, store, blocking, arrivals>>
poolVars == <<user, closer, teardown>>
docVars == <<docs, listing>>
toolVars == <<tool_call, executed>>
vars == <<callVars, session, jwtVars, routeVars, poolVars, docVars, toolVars>>

(***************************************************************************)
(* Bounds of the model.                                                    *)
(***************************************************************************)
NumTasks == 2        \* inbound requests the event loop serves at a time
MaxRequests == 3     \* inbound requests over the life of the process
NumUsers == 2        \* call_fusefy_api attempts in flight at a time
NumClosers == 3      \* close_session invocations over the life of the process
MaxSessions == 3     \* ClientSession objects constructed over the life of the process
MaxBodyLen == 2
MaxAttemptNumber == 6   \* attempt numbers the wait is evaluated for
MaxPaths == 2           \* paths of an API description
MaxOperations == 2      \* entries under one path of an API description

(***************************************************************************)
(* Program constants.                                                      *)
(***************************************************************************)
MAX_RETRIES == 3
RETRY_DELAY == 1
WAIT_MIN == 1
WAIT_MAX == 10

None == "None"                       \* Python's None for string-valued arguments
BASE_URL == "https://85tb7na8f9.execute-api.us-east-1.amazonaws.com"
AUTH_FAILED_MESSAGE == "Authentication failed. Please provide a valid JWT token."

(***************************************************************************)
(* Python truthiness of an Optional[str] argument.                         *)
(***************************************************************************)
Truthy(v) == v # None /\ v # ""

(***************************************************************************)
(* Inputs.                                                                 *)
(***************************************************************************)
Tokens == {None, "", "t"}
ResourceIds == {None, "fw-7"}
Payloads == {None, "{\"name\":\"x\"}"}
Endpoints == { <<"/", "frameworks">>, <<"frameworks">>, <<"/", "controls", "/">> }
Methods == {"GET", "POST", "PUT", "DELETE", "get"}
OperationNames == {"list", "get", "create", "update", "delete", "purge"}

\* Exceptions an attempt can meet inside the try block.
TransportErrors == {"aiohttp.ClientError", "TimeoutError"}
LocalFaults == {"TypeError"}

\* What the upstream answers with.
Statuses == {200, 299, 300, 399, 400, 401, 503}
BodyChars == {"[", "]", "1"}
BodiesOfLen(n) == [1..n -> BodyChars]
Bodies == UNION { BodiesOfLen(n) : n \in 0..MaxBodyLen }

(***************************************************************************)
(* str.upper() on the method names in use.                                 *)
(***************************************************************************)
upper(m) ==
    CASE m = "get" -> "GET"
      [] m = "post" -> "POST"
      [] m = "put" -> "PUT"
      [] m = "delete" -> "DELETE"
      [] OTHER -> m

(***************************************************************************)
(* str.rstrip('/') on a tokenised path.                                    *)
(***************************************************************************)
RECURSIVE rstrip(_)
rstrip(p) ==
    IF p # <<>> /\ p[Len(p)] = "/" THEN rstrip(SubSeq(p, 1, Len(p) - 1)) ELSE p

(***************************************************************************)
(* call_fusefy_api, lines 45-52: the path the request goes to.             *)
(***************************************************************************)
BuildEndpoint(endpoint, method, resource_id) ==
    LET e1 == IF endpoint # <<>> /\ Head(endpoint) = "/" THEN endpoint
              ELSE <<"/">> \o endpoint
    IN  IF Truthy(resource_id) /\ method \in {"GET", "PUT", "DELETE"}
        THEN rstrip(e1) \o <<"/", resource_id>>
        ELSE e1

(***************************************************************************)
(* call_fusefy_api, lines 56-64: the headers, as a set of <<key, value>>.  *)
(***************************************************************************)
BuildHeadersAuthorization(token) ==
    { <<"Content-Type", "application/json">>, <<"Accept", "application/json">> }
      \cup (IF Truthy(token) THEN { <<"Authorization", token>> } ELSE {})

BuildHeaders(token) ==
    { <<"Content-Type", "application/json">>, <<"Accept", "application/json">> }
      \cup (IF Truthy(token) THEN { <<"token", token>> } ELSE {})

(***************************************************************************)
(* call_fusefy_api, lines 69-75: the request given to session.request.     *)
(***************************************************************************)
BuildRequest(a) ==
    [ method  |-> upper(a.method),
      base    |-> BASE_URL,
      path    |-> BuildEndpoint(a.endpoint, a.method, a.resource_id),
      json    |-> a.data,
      params  |-> a.params,
      headers |-> BuildHeaders(a.token) ]

(***************************************************************************)
(* json.loads on a tokenised body.  Grammar: value ::= 1+ | [] | [value].  *)
(* A parsed value is [tag, items, raw]; IsJson is FALSE on JSONDecodeError.*)
(***************************************************************************)
JsonValue(tag, items, raw) == [tag |-> tag, items |-> items, raw |-> raw]
EmptyObject == JsonValue("object", <<>>, <<>>)
NoData == JsonValue("absent", <<>>, <<>>)
ParseFail == [ok |-> FALSE, val |-> NoData, rest |-> <<>>]

RECURSIVE Digits(_)
Digits(s) == IF s # <<>> /\ Head(s) = "1" THEN <<"1">> \o Digits(Tail(s)) ELSE <<>>

RECURSIVE ParseValue(_)
ParseValue(s) ==
    IF s = <<>> THEN ParseFail
    ELSE IF Head(s) = "1" THEN
        LET d == Digits(s)
        IN  [ok |-> TRUE, val |-> JsonValue("number", <<>>, d),
             rest |-> SubSeq(s, Len(d) + 1, Len(s))]
    ELSE IF Head(s) = "[" THEN
        IF Len(s) >= 2 /\ s[2] = "]"
        THEN [ok |-> TRUE, val |-> JsonValue("array", <<>>, <<>>),
              rest |-> SubSeq(s, 3, Len(s))]
        ELSE LET inner == ParseValue(Tail(s))
             IN  IF inner.ok /\ inner.rest # <<>> /\ Head(inner.rest) = "]"
                 THEN [ok |-> TRUE, val |-> JsonValue("array", <<inner.val>>, <<>>),
                       rest |-> Tail(inner.rest)]
                 ELSE ParseFail
    ELSE ParseFail

IsJson(text) == LET r == ParseValue(text) IN r.ok /\ r.rest = <<>>
json_loads(text) == ParseValue(text).val

(***************************************************************************)
(* call_fusefy_api, lines 78-81: the data of the envelope.                 *)
(***************************************************************************)
ResponseDataNoEmptyGuard(response_text) ==
    IF IsJson(response_text) THEN json_loads(response_text)
    ELSE JsonValue("raw_response", <<>>, response_text)

ResponseData(response_text) ==
    IF response_text = <<>> THEN EmptyObject
    ELSE IF IsJson(response_text) THEN json_loads(response_text)
    ELSE JsonValue("raw_response", <<>>, response_text)

(***************************************************************************)
(* call_fusefy_api, line 86 and lines 91-98.                               *)
(***************************************************************************)
SuccessOfInclusive(status) == 200 <= status /\ status <= 300

SuccessOf(status) == 200 <= status /\ status < 300

NoError == <<>>                      \* the envelope has no "error" key
ErrorOfBodyAware(status, response_text) ==
    IF status = 401 /\ response_text = <<>> THEN <<AUTH_FAILED_MESSAGE>>
    ELSE IF status >= 400 THEN <<"API error: " \o ToString(status)>>
    ELSE NoError

ErrorOf(status, response_text) ==
    IF status = 401 THEN <<AUTH_FAILED_MESSAGE>>
    ELSE IF status >= 400 THEN <<"API error: " \o ToString(status)>>
    ELSE NoError

(***************************************************************************)
(* What an invocation hands to its caller: an envelope (a returned dict)   *)
(* or a raised exception.                                                  *)
(***************************************************************************)
NoResult ==
    [ kind |-> "none", status |-> 0, data |-> NoData, success |-> FALSE,
      endpoint |-> <<>>, method |-> "", error |-> NoError, exc |-> "" ]

\* lines 83-100: the envelope built from a response
Envelope(a, status, response_text) ==
    [ kind     |-> "envelope",
      status   |-> status,
      data     |-> ResponseData(response_text),
      success  |-> SuccessOf(status),
      endpoint |-> BuildEndpoint(a.endpoint, a.method, a.resource_id),
      method   |-> a.method,
      error    |-> ErrorOf(status, response_text),
      exc      |-> "" ]

\* lines 105-113: the synthetic envelope built for a local fault
SyntheticEnvelope(a, e) ==
    [ kind     |-> "envelope",
      status   |-> 500,
      data     |-> NoData,
      success  |-> FALSE,
      endpoint |-> BuildEndpoint(a.endpoint, a.method, a.resource_id),
      method   |-> a.method,
      error    |-> <<e>>,
      exc      |-> "" ]

\* lines 102-104 with reraise=True: the exception reaches the caller
Raised(e) == [NoResult EXCEPT !.kind = "exception", !.exc = e]

(***************************************************************************)
(* The retry decorator, lines 19-25 (tenacity).                            *)
(***************************************************************************)
RECURSIVE Pow2(_)
Pow2(n) == IF n <= 0 THEN 1 ELSE 2 * Pow2(n - 1)

Max(a, b) == IF a >= b THEN a ELSE b
Min(a, b) == IF a <= b THEN a ELSE b

\* wait_exponential(multiplier=Config.RETRY_DELAY, min=1, max=10)
\* a wait that does not grow
wait_fixed(n) == Max(Max(0, WAIT_MIN), Min(RETRY_DELAY, WAIT_MAX))

wait_exponential(n) ==
    Max(Max(0, WAIT_MIN), Min(RETRY_DELAY * Pow2(n - 1), WAIT_MAX))

\* stop_after_attempt(Config.MAX_RETRIES)
stop_after_attempt_early(n) == n >= MAX_RETRIES - 1

stop_after_attempt_late(n) == n > MAX_RETRIES

stop_after_attempt(n) == n >= MAX_RETRIES

\* What one execution of the function body gives tenacity: a returned value
\* (failed = FALSE) or an exception that left the body (failed = TRUE).
ReturnedValue(envelope) == [failed |-> FALSE, exc |-> "", value |-> envelope]
RaisedException(e) == [failed |-> TRUE, exc |-> e, value |-> Raised(e)]

\* retry_if_exception_type((aiohttp.ClientError, TimeoutError))
retry_if_exception_type_or_5xx(outcome) ==
    \/ outcome.failed /\ outcome.exc \in TransportErrors
    \/ ~outcome.failed /\ outcome.value.status >= 500

retry_if_exception_type(outcome) ==
    outcome.failed /\ outcome.exc \in TransportErrors

(***************************************************************************)
(* Tokens and secrets.  A token is the text a client sent; when the text   *)
(* has the three segments of a JWT, alg is the algorithm named in its      *)
(* header, key the secret its signature was made with and expired tells    *)
(* whether its exp claim lies in the past.                                 *)
(***************************************************************************)
JwtText == "h.p.s"
NoToken == [ text |-> None, alg |-> "", key |-> "", expired |-> FALSE ]
EmptyToken == [ NoToken EXCEPT !.text = "" ]
MalformedToken == [ NoToken EXCEPT !.text = "garbage" ]
Jwt(alg, key, expired) == [ text |-> JwtText, alg |-> alg, key |-> key, expired |-> expired ]

SecretValues == {"s1", "s2"}
\* a secret document whose JWT_SECRET entry is a number: get_jwt_secret hands
\* the number on (config.py line 60)
NonStringSecret == "<int>"
JwtAlgs == {"HS256", "HS384", "none", "HS"}
SigningKeys == SecretValues \cup {"attacker"}
JwtTokens ==
    {NoToken, EmptyToken, MalformedToken}
        \cup { Jwt(a, k, x) : a \in JwtAlgs, k \in SigningKeys, x \in BOOLEAN }
JwtSecrets == SecretValues \cup {NonStringSecret}

\* `alg not in algorithms` with algorithms = 'HS256', a str: a substring test
SubstringsOfHS256 ==
    {"", "H", "S", "2", "5", "6", "HS", "S2", "25", "56", "HS2", "S25", "256",
     "HS25", "S256", "HS256"}
\* the algorithms PyJWT has a verifier for without the cryptography package
RegisteredAlgorithms == {"none", "HS256", "HS384", "HS512"}

Decoded == [ ok |-> TRUE, exc |-> "", msg |-> "" ]
DecodeRaises(exc, msg) == [ ok |-> FALSE, exc |-> exc, msg |-> msg ]

\* jwt.decode accepting whatever registered algorithm the header names
jwt_decode_header_alg(token, secret) ==
    IF token.text = None THEN DecodeRaises("DecodeError", "Invalid token type")
    ELSE IF token.text # JwtText THEN DecodeRaises("DecodeError", "Not enough segments")
    ELSE IF token.alg \notin RegisteredAlgorithms
    THEN DecodeRaises("InvalidAlgorithmError", "Algorithm not supported")
    ELSE IF secret \notin SecretValues
    THEN DecodeRaises("TypeError", "Expected a string value")
    ELSE IF token.alg # "none" /\ token.key # secret
    THEN DecodeRaises("InvalidSignatureError", "Signature verification failed")
    ELSE IF token.expired
    THEN DecodeRaises("ExpiredSignatureError", "Signature has expired")
    ELSE Decoded

\* jwt.decode(token, secret, algorithms='HS256'), router.py line 31: the
\* segments are split, the header's alg is tested against algorithms and
\* looked up, the key is prepared, the signature verified, then exp validated
jwt_decode(token, secret) ==
    IF token.text = None THEN DecodeRaises("DecodeError", "Invalid token type")
    ELSE IF token.text # JwtText THEN DecodeRaises("DecodeError", "Not enough segments")
    ELSE IF token.alg \notin SubstringsOfHS256
    THEN DecodeRaises("InvalidAlgorithmError", "The specified alg value is not allowed")
    ELSE IF token.alg \notin RegisteredAlgorithms
    THEN DecodeRaises("InvalidAlgorithmError", "Algorithm not supported")
    ELSE IF secret \notin SecretValues
    THEN DecodeRaises("TypeError", "Expected a string value")
    ELSE IF token.key # secret
    THEN DecodeRaises("InvalidSignatureError", "Signature verification failed")
    ELSE IF token.expired
    THEN DecodeRaises("ExpiredSignatureError", "Signature has expired")
    ELSE Decoded

\* verify_jwt_token, router.py lines 28-35.  kind is "returned" for a dict
\* handed back and "raised" for an exception that left the function; every
\* exception jwt.decode raises is an Exception, which line 33 catches.
TOKEN_VERIFICATION_FAILED == "Token verification failed: "
NoVerification == [ kind |-> "none", valid |-> FALSE, error |-> <<>> ]
verify_jwt_token(token, secret) ==
    LET decoded == jwt_decode(token, secret)
    IN  IF decoded.ok
        THEN [ kind |-> "returned", valid |-> TRUE, error |-> <<>> ]
        ELSE [ kind |-> "returned", valid |-> FALSE,
               error |-> <<TOKEN_VERIFICATION_FAILED, decoded.msg>> ]

(***************************************************************************)
(* Timeouts of the shared session and the except clause that catches them. *)
(***************************************************************************)
SessionTimeouts == {"connect", "total"}
TimeoutException(kind) ==
    IF kind = "connect" THEN "aiohttp.ServerTimeoutError" ELSE "asyncio.TimeoutError"

\* lines 102 and 105: the first except clause whose classes the exception is
\* an instance of
CaughtAs(e, builtin_alias) ==
    IF e \in {"aiohttp.ClientError", "aiohttp.ServerTimeoutError"} THEN "aiohttp.ClientError"
    ELSE IF e = "TimeoutError" \/ (e = "asyncio.TimeoutError" /\ builtin_alias)
    THEN "TimeoutError"
    ELSE "Exception"

(***************************************************************************)
(* SessionManager.get_session: the value of _session after the call.       *)
(***************************************************************************)
\* _session is 0 for None, else the number of the ClientSession it refers to;
\* created counts the ClientSession objects constructed; closed holds those
\* whose .closed is True.
NoSession == [ ref |-> 0, created |-> 0, closed |-> {} ]

get_session(s) ==
    IF s.ref = 0 \/ s.ref \in s.closed
    THEN [ s EXCEPT !.ref = s.created + 1, !.created = s.created + 1 ]
    ELSE s

(***************************************************************************)
(* _manage_resource and the manage_* functions.                            *)
(***************************************************************************)
method_map_post_update(operation) ==
    CASE operation = "list" -> "GET"
      [] operation = "get" -> "GET"
      [] operation = "create" -> "POST"
      [] operation = "update" -> "POST"
      [] operation = "delete" -> "DELETE"
      [] OTHER -> "GET"

method_map(operation) ==
    CASE operation = "list" -> "GET"
      [] operation = "get" -> "GET"
      [] operation = "create" -> "POST"
      [] operation = "update" -> "PUT"
      [] operation = "delete" -> "DELETE"
      [] OTHER -> "GET"

ManageFunctions ==
    { "manage_frameworks", "manage_controls", "manage_assessments", "manage_usecases",
      "manage_tenant", "manage_documents", "manage_policy_documents", "manage_aws_s3",
      "manage_azure_blob", "manage_lambda", "manage_cloud_providers",
      "manage_cloud_frameworks", "manage_methodology_metrics", "manage_tco",
      "manage_adoption_insights", "manage_model_validation", "manage_tenant_details",
      "manage_usecase_assessment", "manage_features", "manage_grading_types",
      "manage_app_metadata" }

\* the endpoint each manage_* function passes to _manage_resource
ManageEndpoint(fn) ==
    CASE fn = "manage_frameworks" -> <<"/", "frameworks">>
      [] fn = "manage_controls" -> <<"/", "controls">>
      [] fn = "manage_assessments" -> <<"/", "assessments">>
      [] fn = "manage_usecases" -> <<"/", "usecase">>
      [] fn = "manage_tenant" -> <<"/", "tenant">>
      [] fn = "manage_documents" -> <<"/", "documents">>
      [] fn = "manage_policy_documents" -> <<"/", "policyDocuments">>
      [] fn = "manage_aws_s3" -> <<"/", "awsS3">>
      [] fn = "manage_azure_blob" -> <<"/", "azureBlob">>
      [] fn = "manage_lambda" -> <<"/", "lambda">>
      [] fn = "manage_cloud_providers" -> <<"/", "cloudProviders">>
      [] fn = "manage_cloud_frameworks" -> <<"/", "cloudFrameworks">>
      [] fn = "manage_methodology_metrics" -> <<"/", "methodologyMetrics">>
      [] fn = "manage_tco" -> <<"/", "tco">>
      [] fn = "manage_adoption_insights" -> <<"/", "adoptionInsights">>
      [] fn = "manage_model_validation" -> <<"/", "modelValidation">>
      [] fn = "manage_tenant_details" -> <<"/", "tenantDetails">>
      [] fn = "manage_usecase_assessment" -> <<"/", "usecaseAssessment">>
      [] fn = "manage_features" -> <<"/", "feature">>
      [] fn = "manage_grading_types" -> <<"/", "grading-types">>
      [] fn = "manage_app_metadata" -> <<"/", "app-metadata">>

\* _manage_resource, lines 185-193: the arguments it calls call_fusefy_api with
manage_resource_keep_id(endpoint, operation, resource_id, data, token) ==
    [ endpoint    |-> endpoint,
      method      |-> method_map(operation),
      resource_id |-> resource_id,
      data        |-> data,
      params      |-> None,
      token       |-> token ]

manage_resource(endpoint, operation, resource_id, data, token) ==
    [ endpoint    |-> endpoint,
      method      |-> method_map(operation),
      resource_id |-> IF operation \in {"get", "update", "delete"}
                      THEN resource_id ELSE None,
      data        |-> data,
      params      |-> None,
      token       |-> token ]

(***************************************************************************)
(* SessionManager.close_session, config.py lines 42-47, and the users of   *)
(* the shared session.                                                     *)
(***************************************************************************)
Users == 1..NumUsers
Closers == 1..NumClosers
IdleUser == [ pc |-> "idle", ref |-> 0 ]

\* the sessions constructed and not closed
Live(s) == (1..s.created) \ s.closed

\* a guard that looks at the reference only
ShouldCloseAnyReference(s) == s.ref # 0

\* line 45: `if cls._session and not cls._session.closed`
ShouldClose(s) == s.ref # 0 /\ s.ref \notin s.closed

\* ClientSession.close(): .closed is True from the start of the call
session_close(s) == [ s EXCEPT !.closed = @ \cup {s.ref} ]

\* line 47: `cls._session = None`
clear_reference(s) == [ s EXCEPT !.ref = 0 ]

(***************************************************************************)
(* get_jwt_secret, config.py lines 49-68.                                  *)
(***************************************************************************)
\* what get_secret_value answers: a SecretString holding the bare secret, a
\* SecretString holding a JSON document with a JWT_SECRET entry, or a
\* SecretBinary
StoreAnswers ==
    { [ field |-> "SecretString", document |-> "plain", text |-> "s1", entry |-> None ],
      [ field |-> "SecretString", document |-> "json", text |-> "{\"JWT_SECRET\":\"s2\"}",
        entry |-> "s2" ],
      [ field |-> "SecretBinary", document |-> "plain", text |-> "s1", entry |-> None ] }

\* lines 57-64: the value the function body returns for an answer
ExtractSecret(answer) ==
    IF answer.field = "SecretString"
    THEN IF answer.document = "json" /\ answer.entry # None
         THEN answer.entry
         ELSE answer.text
    ELSE answer.text

\* a cache that keeps nothing
lru_cache_store_nothing(cache, value) == cache

\* @lru_cache(maxsize=1) on a function without arguments: one entry, written
\* when the body returns; a body that raises writes nothing
lru_cache_store(cache, value) == value

\* a call that suspends instead of holding the event loop
LoopFreeAlways(t) == TRUE

\* get_secret_value is a synchronous boto3 call made from an `async def`
\* handler: until it returns, the event loop runs no other task
LoopFree(t) == blocking \in {0, t}

(***************************************************************************)
(* The token-taking routes of routers/router.py.                           *)
(***************************************************************************)
Tasks == 1..NumTasks

EXECUTE_AGENT == "POST /execute-agent"
EXECUTE_AGENT_SIMPLE == "GET /execute-agent-simple"
VERIFY_TOKEN == "GET /verify-token"
TEST_API_CONNECTION == "POST /test-api-connection"
Routes == {EXECUTE_AGENT, EXECUTE_AGENT_SIMPLE, VERIFY_TOKEN, TEST_API_CONNECTION}
AgentRoutes == {EXECUTE_AGENT, EXECUTE_AGENT_SIMPLE}

RouteTokens == {NoToken, EmptyToken, Jwt("HS256", "s1", FALSE), Jwt("HS256", "s1", TRUE)}
Queries == {None, "", "q"}

\* body is "bad-json" for an application/json request whose body does not
\* parse (lines 291-299); otherwise the fields arrived as form data, JSON,
\* query string or headers
NoRequest == [ route |-> "", token |-> NoToken, query |-> None, body |-> "fields" ]
Requests ==
    { [ route |-> r, token |-> tk, query |-> q, body |-> "fields" ] :
        r \in AgentRoutes, tk \in RouteTokens, q \in Queries }
    \cup { [ route |-> r, token |-> tk, query |-> None, body |-> "fields" ] :
            r \in Routes \ AgentRoutes, tk \in RouteTokens }
    \cup { [ NoRequest EXCEPT !.route = EXECUTE_AGENT, !.body = "bad-json" ] }

\* parameters declared without a default (query: str, Header(...), Form(...)):
\* FastAPI answers 422 itself and does not call the handler
MissingRequiredParameter(req) ==
    \/ req.route = EXECUTE_AGENT_SIMPLE /\ req.query = None
    \/ req.route \in {VERIFY_TOKEN, TEST_API_CONNECTION} /\ req.token.text = None

NoReply == [ status |-> 0, error |-> <<>> ]
Reply(status, error) == [ status |-> status, error |-> error ]

IdleTask ==
    [ pc |-> "idle", request |-> NoRequest, cold_at_entry |-> FALSE, secret |-> None,
      verification |-> NoVerification, verifications |-> 0, agent_runs |-> 0,
      upstream |-> 0, reply |-> NoReply ]

Replied(tk, status, error) == [ tk EXCEPT !.pc = "done", !.reply = Reply(status, error) ]

\* the tests a handler makes before it resolves the secret: lines 291-303 and
\* line 400 (else branch lines 421-426); NoReply when it goes on
EarlyReply(req) ==
    IF req.route = EXECUTE_AGENT /\ req.body = "bad-json"
    THEN Reply(400, <<"Invalid JSON payload">>)
    ELSE IF req.route = EXECUTE_AGENT /\ (~Truthy(req.token.text) \/ ~Truthy(req.query))
    THEN Reply(400, <<"token and query are required">>)
    ELSE IF req.route = EXECUTE_AGENT_SIMPLE /\ ~Truthy(req.token.text)
    THEN Reply(200, <<"Authentication token required. Please provide a valid JWT token in the 'token' header.">>)
    ELSE NoReply

\* what each handler answers when get_jwt_secret raised: lines 308-313,
\* 414-420, 494-498, 555-559
SecretFailureReply(route) ==
    IF route = EXECUTE_AGENT THEN Reply(500, <<"Failed to retrieve JWT secret: ">>)
    ELSE IF route = EXECUTE_AGENT_SIMPLE THEN Reply(200, <<TOKEN_VERIFICATION_FAILED>>)
    ELSE Reply(500, <<TOKEN_VERIFICATION_FAILED>>)

\* what each handler answers to a token that did not verify: lines 318-322,
\* 408-413, 488-492, 549-553
InvalidTokenReply(route, verification) ==
    IF route = EXECUTE_AGENT_SIMPLE THEN Reply(200, <<"Invalid token: ">> \o verification.error)
    ELSE IF route = VERIFY_TOKEN THEN Reply(401, verification.error)
    ELSE Reply(401, <<"Invalid token: ">> \o verification.error)

\* a handler that goes on whatever the verification said
AuthenticatedAlways(verification) == TRUE

\* `if not token_verification["valid"]`, lines 318, 405, 480, 549
Authenticated(verification) == verification.valid

\* the handler from the secret in hand to its next suspension: it verifies the
\* token, then answers or starts the agent runner
WithSecret(tk, secret) ==
    LET verification == verify_jwt_token(tk.request.token, secret)
        seen == [ tk EXCEPT !.secret = secret, !.verification = verification,
                            !.verifications = @ + 1 ]
    IN  IF ~Authenticated(verification)
        THEN [ seen EXCEPT !.pc = "done",
                           !.reply = InvalidTokenReply(tk.request.route, verification) ]
        ELSE IF tk.request.route \in AgentRoutes
        THEN [ seen EXCEPT !.pc = "agent", !.agent_runs = @ + 1 ]
        ELSE Replied(seen, 200, <<>>)

\* tool calls one agent run makes: none, or one
ToolCallCounts == {0, 1}

\* what each agent route answers when call_agent_async returned or raised:
\* lines 363-384 and 446-468
AgentReply(route, raised) ==
    IF ~raised THEN Reply(200, <<>>)
    ELSE IF route = EXECUTE_AGENT THEN Reply(500, <<"Agent execution error: ">>)
    ELSE Reply(200, <<"Agent execution error: ">>)

(***************************************************************************)
(* list_available_endpoints, tools_config.py lines 128-180.  An API        *)
(* description is the sequence of its paths in document order (a Python    *)
(* dict keeps insertion order); a path is the sequence of its entries,     *)
(* each a key and the tags declared under it.  Path i is named by i.       *)
(***************************************************************************)
HttpMethods == {"get", "post", "put", "delete"}
PathKeys == {"get", "post", "patch"}
TagLists == { <<>>, <<"a">>, <<"b", "a">> }
PathEntries == [ method : PathKeys, tags : TagLists ]

\* the keys of a dict are distinct
DistinctKeys(entries) ==
    \A i, j \in DOMAIN entries : entries[i].method = entries[j].method => i = j

PathItems ==
    { entries \in UNION { [ 1..n -> PathEntries ] : n \in 1..MaxOperations } :
        DistinctKeys(entries) }
Catalogs == UNION { [ 1..n -> PathItems ] : n \in 0..MaxPaths }

NoDocs == [ error |-> FALSE, paths |-> <<>> ]
NoListing == [ kind |-> "none", total_endpoints |-> 0, grouped |-> {} ]
ApiDescriptions ==
    { [ error |-> FALSE, paths |-> c ] : c \in Catalogs } \cup { [ NoDocs EXCEPT !.error = TRUE ] }

\* every operation takes its own first tag
CategoryOfOperation(entries, j) ==
    IF entries[j].tags # <<>> THEN entries[j].tags[1] ELSE "general"

\* lines 143-150: the category of a path is taken from its first entry that
\* is an HTTP method (the loop breaks there), "general" when that entry has
\* no tags or the path has no such entry
CategoryOfPath(entries) ==
    LET http == { j \in DOMAIN entries : entries[j].method \in HttpMethods }
    IN  IF http = {} THEN "general"
        ELSE LET first == CHOOSE j \in http : \A k \in http : j <= k
             IN  IF entries[first].tags # <<>> THEN entries[first].tags[1] ELSE "general"

\* lines 152-172: the operations placed in the output, each with the category
\* and the path it is listed under
GroupedOperations(paths) ==
    { [ category |-> CategoryOfPath(paths[i]), path |-> i,
        method |-> upper(paths[i][j].method) ] :
        <<i, j>> \in { ij \in (DOMAIN paths) \X (1..MaxOperations + 1) :
                        /\ ij[2] \in DOMAIN paths[ij[1]]
                        /\ paths[ij[1]][ij[2]].method \in HttpMethods } }

\* lines 174-175: sum(len(eps) for eps in categories.values()): the number of
\* paths that have an operation
TotalEndpoints(paths) ==
    Cardinality({ i \in DOMAIN paths :
                    \E j \in DOMAIN paths[i] : paths[i][j].method \in HttpMethods })

list_available_endpoints(d) ==
    IF d.error
    THEN [ kind |-> "error", total_endpoints |-> 0, grouped |-> {} ]
    ELSE [ kind |-> "summary", total_endpoints |-> TotalEndpoints(d.paths),
           grouped |-> GroupedOperations(d.paths) ]

(***************************************************************************)
(* Executing a tool call of the language model: call_agent_async           *)
(* (router.py lines 86-152) and execute_fusefy_tool (agent.py lines 29-57).*)
(* A tool call is the function name and the arguments the model produced;  *)
(* has_token tells whether the arguments have a 'token' key and token is   *)
(* its value.  auth_token is the verified token of the request.            *)
(***************************************************************************)
CALL_AGENT_ASYNC == "call_agent_async"
EXECUTE_FUSEFY_TOOL == "execute_fusefy_tool"

\* names the model may ask for: two tool functions, a class attribute that is
\* not a function, a name FusefyAPITools does not have, and no name
ToolNames == {"manage_frameworks", "list_available_endpoints", "BASE_URL", "no_such_tool", None}
ModelTokens == {None, "", "forged", "t"}

NoToolCall ==
    [ via |-> "", name |-> None, has_token |-> FALSE, token |-> None, auth_token |-> None ]
ToolCalls ==
    { [ via |-> CALL_AGENT_ASYNC, name |-> n, has_token |-> h, token |-> tk, auth_token |-> "t" ] :
        n \in ToolNames, h \in BOOLEAN, tk \in ModelTokens }
    \cup { [ via |-> EXECUTE_FUSEFY_TOOL, name |-> n, has_token |-> h, token |-> tk,
             auth_token |-> None ] :
            n \in ToolNames, h \in BOOLEAN, tk \in ModelTokens }

\* a call without a 'token' key carries no token value
WellFormedToolCall(c) == ~c.has_token => c.token = None

\* hasattr(FusefyAPITools, function_name); a name that is not a str makes
\* hasattr raise TypeError
HasAttrRaises(name) == name = None
HasAttr(name) == name \in {"manage_frameworks", "list_available_endpoints", "BASE_URL"}

\* func(**args): what the call can do.  invoked tells whether the function
\* body ran (a call that Python cannot bind, or of a non-callable, raises
\* TypeError before it).  The body of a tool function ends as the adapter
\* does: with an envelope, or with the transport exception after the last
\* retry.
Ran(kind, status, exc) == [ kind |-> kind, status |-> status, exc |-> exc, invoked |-> TRUE ]
NotBound == [ kind |-> "raised", status |-> 0, exc |-> "TypeError", invoked |-> FALSE ]
FunctionOutcomes(name, passes_token) ==
    IF name = "manage_frameworks"
    THEN { Ran("returned", 200, ""), Ran("returned", 401, ""), NotBound }
             \cup { Ran("raised", 0, e) : e \in TransportErrors }
    ELSE IF name = "list_available_endpoints" /\ ~passes_token
    THEN { Ran("returned", 200, "") }
    ELSE { NotBound }

NotExecuted ==
    [ kind |-> "none", invoked |-> FALSE, passed_token |-> None, status |-> 0, error |-> <<>> ]
Handed(invoked, passed_token, status, error) ==
    [ kind |-> "returned", invoked |-> invoked, passed_token |-> passed_token,
      status |-> status, error |-> error ]

\* router.py lines 93-94: `if auth_token and 'token' not in args`
InjectToken(c) ==
    IF Truthy(c.auth_token) /\ ~c.has_token
    THEN [ c EXCEPT !.has_token = TRUE, !.token = c.auth_token ]
    ELSE c

\* router.py lines 99-152: the tool call is executed and its result, or the
\* error of line 139, is sent back to the agent; nothing is raised
call_agent_tool(c, outcome) ==
    LET a == InjectToken(c)
    IN  IF HasAttrRaises(a.name) THEN Handed(FALSE, None, 0, <<"TypeError">>)
        ELSE IF ~HasAttr(a.name)
        THEN Handed(FALSE, None, 0, <<"Function ", a.name, " not found">>)
        ELSE IF outcome.kind = "raised"
        THEN Handed(outcome.invoked, a.token, 0, <<outcome.exc>>)
        ELSE Handed(outcome.invoked, a.token, outcome.status, <<>>)

\* a guard that lets every call through
TokenPresentAlways(token) == TRUE

\* agent.py line 41: `if not token`
TokenPresent(token) == Truthy(token)

\* execute_fusefy_tool, agent.py lines 29-57
execute_fusefy_tool(c, outcome) ==
    LET token == IF c.has_token THEN c.token ELSE None
    IN  IF ~TokenPresent(token)
        THEN Handed(FALSE, None, 401,
                    <<"Authentication token is required. Please provide a valid JWT token.">>)
        ELSE IF HasAttrRaises(c.name)
        THEN Handed(FALSE, None, 0, <<"Tool execution error: ", "TypeError">>)
        ELSE IF ~HasAttr(c.name)
        THEN Handed(FALSE, None, 0, <<"Function ", c.name, " not found in FusefyAPITools">>)
        ELSE IF outcome.kind = "raised"
        THEN Handed(outcome.invoked, token, 0, <<"Tool execution error: ", outcome.exc>>)
        ELSE Handed(outcome.invoked, token, outcome.status, <<>>)

(***************************************************************************)
(* State.                                                                  *)
(***************************************************************************)
NoArgs ==
    [ endpoint |-> <<>>, method |-> "", resource_id |-> None, data |-> None,
      params |-> None, token |-> None ]
NoTool == [ fn |-> "", operation |-> "", resource_id |-> None, data |-> None, token |-> None ]
NoResponse == [ received |-> FALSE, status |-> 0, text |-> <<>> ]

AdapterIdle ==
    /\ pc = "idle"
    /\ tool = NoTool
    /\ args = NoArgs
    /\ attempt_number = 0
    /\ sent = <<>>
    /\ slept = <<>>
    /\ fails = 0
    /\ met = ""
    /\ processed = 0
    /\ response = NoResponse
    /\ result = NoResult

PoolIdle ==
    /\ session = NoSession
    /\ user = [ u \in Users |-> IdleUser ]
    /\ closer = [ c \in Closers |-> "idle" ]
    /\ teardown = [ begun |-> FALSE, closes |-> [ id \in 1..MaxSessions |-> 0 ],
                    log |-> <<>>, late |-> FALSE ]

JwtIdle ==
    /\ jwt_in = [ token |-> NoToken, secret |-> None ]
    /\ jwt_out = NoVerification

RoutesIdle ==
    /\ task = [ t \in Tasks |-> IdleTask ]
    /\ secret_cache = None
    /\ store = [ calls |-> 0, log |-> <<>> ]
    /\ blocking = 0
    /\ arrivals = 0

DocsIdle ==
    /\ docs = NoDocs
    /\ listing = NoListing

ToolsIdle ==
    /\ tool_call = NoToolCall
    /\ executed = NotExecuted

Init == AdapterIdle /\ PoolIdle /\ JwtIdle /\ RoutesIdle /\ DocsIdle /\ ToolsIdle

\* the decorated call_fusefy_api is entered: tenacity starts attempt 1
Enter(t, a) ==
    /\ pc = "idle"
    /\ pc' = "attempt"
    /\ tool' = t
    /\ args' = a
    /\ attempt_number' = 1
    /\ sent' = <<>>
    /\ slept' = <<>>
    /\ fails' = 0
    /\ met' = ""
    /\ processed' = 0
    /\ response' = NoResponse
    /\ result' = NoResult
    /\ UNCHANGED <<session, jwtVars, routeVars, poolVars, docVars, toolVars>>

\* a caller (the agent's tool "call_fusefy_api") invokes the adapter directly
DirectCall ==
    \E e \in Endpoints, m \in Methods, rid \in ResourceIds, d \in Payloads, tk \in Tokens :
        Enter([NoTool EXCEPT !.fn = "call_fusefy_api"],
              [ endpoint |-> e, method |-> m, resource_id |-> rid, data |-> d,
                params |-> None, token |-> tk ])

\* a caller invokes one of the manage_* functions, lines 195-309
ManageCall ==
    \E fn \in ManageFunctions, op \in OperationNames, rid \in ResourceIds,
       d \in Payloads, tk \in Tokens :
        Enter([ fn |-> fn, operation |-> op, resource_id |-> rid, data |-> d, token |-> tk ],
              manage_resource(ManageEndpoint(fn), op, rid, d, tk))

\* tenacity's decision after one execution of the body (lines 20-25): hand the
\* outcome to the caller, give up (reraise=True), or sleep before a retry.
Decide(outcome) ==
    IF ~retry_if_exception_type(outcome)
    THEN /\ pc' = IF outcome.failed THEN "raised" ELSE "returned"
         /\ result' = outcome.value
    ELSE IF stop_after_attempt(attempt_number)
    THEN /\ pc' = "raised"
         /\ result' = IF outcome.failed THEN outcome.value ELSE Raised("RetryError")
    ELSE /\ pc' = "sleeping"
         /\ result' = NoResult

\* One execution of the function body that receives a response: lines 45-100.
AttemptResponse(statuses, bodies) ==
    /\ pc = "attempt"
    /\ \E st \in statuses, text \in bodies :
        /\ response' = [ received |-> TRUE, status |-> st, text |-> text ]
        /\ Decide(ReturnedValue(Envelope(args, st, text)))
    /\ session' = get_session(session)
    /\ sent' = Append(sent, BuildRequest(args))
    /\ met' = ""
    /\ processed' = processed + 1
    /\ UNCHANGED <<tool, args, attempt_number, slept, fails, jwtVars, routeVars, poolVars, docVars, toolVars>>

\* A transport failure tells the client nothing about the upstream: the
\* connection may have failed before the request left (not processed), or the
\* request was processed and the answer was lost or timed out.
Reached(reached) == IF reached THEN 1 ELSE 0

\* One execution of the function body that meets aiohttp.ClientError or
\* TimeoutError: lines 102-104 log it and raise it again.
AttemptTransportError ==
    /\ pc = "attempt"
    /\ \E e \in TransportErrors : Decide(RaisedException(e)) /\ met' = e
    /\ \E reached \in BOOLEAN : processed' = processed + Reached(reached)
    /\ session' = get_session(session)
    /\ sent' = Append(sent, BuildRequest(args))
    /\ fails' = fails + 1
    /\ response' = NoResponse
    /\ UNCHANGED <<tool, args, attempt_number, slept, jwtVars, routeVars, poolVars, docVars, toolVars>>

\* One execution of the function body in which session.request or
\* response.text() raises any other Exception (a TypeError for a body that
\* cannot be serialised, say): lines 105-113 return the synthetic envelope.
AttemptLocalFault ==
    /\ pc = "attempt"
    /\ \E e \in LocalFaults :
        Decide(ReturnedValue(SyntheticEnvelope(args, e))) /\ met' = e
    /\ processed' = processed
    /\ session' = get_session(session)
    /\ sent' = Append(sent, BuildRequest(args))
    /\ response' = NoResponse
    /\ UNCHANGED <<tool, args, attempt_number, slept, fails, jwtVars, routeVars, poolVars, docVars, toolVars>>

\* One execution of the function body in which a timeout of the shared session
\* (config.py lines 35-38) fires.  aiohttp raises ServerTimeoutError, an
\* aiohttp.ClientError, for the connect timeout and asyncio.TimeoutError for
\* the total timeout.  asyncio.TimeoutError is the builtin TimeoutError that
\* lines 23 and 102 name only from Python 3.11 on; before, it is a plain
\* Exception.  The interpreter is not fixed by the repository, so both are
\* outcomes.
AttemptTimeout ==
    /\ pc = "attempt"
    /\ \E kind \in SessionTimeouts, builtin_alias \in BOOLEAN :
        LET e == TimeoutException(kind)
            clause == CaughtAs(e, builtin_alias)
        IN  /\ met' = e
            /\ \E reached \in {FALSE, kind = "total"} :
                   processed' = processed + Reached(reached)
            /\ IF clause \in TransportErrors
               THEN Decide(RaisedException(clause)) /\ fails' = fails + 1
               ELSE Decide(ReturnedValue(SyntheticEnvelope(args, e))) /\ fails' = fails
    /\ session' = get_session(session)
    /\ sent' = Append(sent, BuildRequest(args))
    /\ response' = NoResponse
    /\ UNCHANGED <<tool, args, attempt_number, slept, jwtVars, routeVars, poolVars, docVars, toolVars>>

\* tenacity sleeps wait_exponential(attempt_number) and starts the next attempt
Backoff ==
    /\ pc = "sleeping"
    /\ slept' = Append(slept, wait_exponential(attempt_number))
    /\ attempt_number' = attempt_number + 1
    /\ pc' = "attempt"
    /\ met' = ""
    /\ UNCHANGED <<tool, args, sent, fails, processed, response, result, session, jwtVars, routeVars, poolVars, docVars, toolVars>>

\* the caller takes the result (or the exception) and the adapter is idle again
Return ==
    /\ pc \in {"returned", "raised"}
    /\ pc' = "idle"
    /\ tool' = NoTool
    /\ args' = NoArgs
    /\ attempt_number' = 0
    /\ sent' = <<>>
    /\ slept' = <<>>
    /\ fails' = 0
    /\ met' = ""
    /\ processed' = 0
    /\ response' = NoResponse
    /\ result' = NoResult
    /\ UNCHANGED <<session, jwtVars, routeVars, poolVars, docVars, toolVars>>

(***************************************************************************)
(* Spec: the adapter called directly, against every upstream answer.       *)
(***************************************************************************)
Next ==
    \/ DirectCall
    \/ AttemptResponse(Statuses, Bodies)
    \/ AttemptTransportError
    \/ AttemptTimeout
    \/ AttemptLocalFault
    \/ Backoff
    \/ Return

Spec == Init /\ [][Next]_vars

(***************************************************************************)
(* SpecManage: the manage_* tool functions, against a few upstream answers.*)
(***************************************************************************)
ManageStatuses == {200, 401}
ManageBodies == { <<>>, <<"[", "]">> }

NextManage ==
    \/ ManageCall
    \/ AttemptResponse(ManageStatuses, ManageBodies)
    \/ AttemptTransportError
    \/ AttemptTimeout
    \/ AttemptLocalFault
    \/ Backoff
    \/ Return

SpecManage == Init /\ [][NextManage]_vars

(***************************************************************************)
(* LiveSpec: Spec with the progress the event loop gives one invocation.   *)
(* The shared session has finite connect and total timeouts (config.py     *)
(* lines 35-38), so an attempt in flight ends with a response or with an   *)
(* exception, and the sleep tenacity awaits between attempts is finite.    *)
(***************************************************************************)
AttemptStep ==
    \/ AttemptResponse(Statuses, Bodies)
    \/ AttemptTransportError
    \/ AttemptTimeout
    \/ AttemptLocalFault

LiveSpec == Spec /\ WF_vars(AttemptStep) /\ WF_vars(Backoff)

(***************************************************************************)
(* verify_jwt_token on its own: one call on any token and any secret.      *)
(***************************************************************************)
InitVerify ==
    /\ AdapterIdle /\ PoolIdle /\ RoutesIdle /\ DocsIdle /\ ToolsIdle
    /\ jwt_in \in [ token : JwtTokens, secret : JwtSecrets ]
    /\ jwt_out = NoVerification

VerifyCall ==
    /\ jwt_out.kind = "none"
    /\ jwt_out' = verify_jwt_token(jwt_in.token, jwt_in.secret)
    /\ UNCHANGED <<callVars, session, jwt_in, routeVars, poolVars, docVars, toolVars>>

NextVerify == VerifyCall

SpecVerify == InitVerify /\ [][NextVerify]_vars

(***************************************************************************)
(* SpecRoutes: inbound requests served concurrently by the event loop.     *)
(***************************************************************************)
\* a request reaches the server; FastAPI binds the handler's parameters
Arrive(t) ==
    /\ task[t].pc = "idle"
    /\ LoopFree(t)
    /\ arrivals < MaxRequests
    /\ arrivals' = arrivals + 1
    /\ \E req \in Requests :
        task' = [ task EXCEPT ![t] =
                    IF MissingRequiredParameter(req)
                    THEN Replied([ IdleTask EXCEPT !.request = req ], 422, <<"field required">>)
                    ELSE [ IdleTask EXCEPT !.pc = "entered", !.request = req,
                                           !.cold_at_entry = (secret_cache = None) ] ]
    /\ UNCHANGED <<secret_cache, store, blocking, callVars, session, jwtVars, poolVars, docVars, toolVars>>

\* the handler body runs from its start to its first suspension: the early
\* tests, then get_jwt_secret(), which on a cache hit returns at once and on
\* a miss enters the boto3 call
Handle(t) ==
    /\ task[t].pc = "entered"
    /\ LoopFree(t)
    /\ LET early == EarlyReply(task[t].request)
       IN  IF early # NoReply
           THEN /\ task' = [ task EXCEPT ![t] = [ @ EXCEPT !.pc = "done", !.reply = early ] ]
                /\ UNCHANGED <<secret_cache, store, blocking>>
           ELSE IF secret_cache # None
           THEN /\ task' = [ task EXCEPT ![t] = WithSecret(@, secret_cache) ]
                /\ UNCHANGED <<secret_cache, store, blocking>>
           ELSE /\ task' = [ task EXCEPT ![t] = [ @ EXCEPT !.pc = "fetching" ] ]
                /\ store' = [ store EXCEPT !.calls = @ + 1 ]
                /\ blocking' = t
                /\ UNCHANGED secret_cache
    /\ UNCHANGED <<arrivals, callVars, session, jwtVars, poolVars, docVars, toolVars>>

\* get_secret_value answers: the body returns, lru_cache keeps the value and
\* the handler goes on with it
FetchAnswer(t) ==
    /\ task[t].pc = "fetching"
    /\ LoopFree(t)
    /\ \E answer \in StoreAnswers :
        LET secret == ExtractSecret(answer)
        IN  /\ secret_cache' = lru_cache_store(secret_cache, secret)
            /\ store' = [ store EXCEPT !.log = Append(@, secret) ]
            /\ task' = [ task EXCEPT ![t] = WithSecret(@, secret) ]
    /\ blocking' = 0
    /\ UNCHANGED <<arrivals, callVars, session, jwtVars, poolVars, docVars, toolVars>>

\* boto3 raises (no credentials, no network, no such secret): lines 66-68
\* log and raise, and the handler answers for the failure
FetchFails(t) ==
    /\ task[t].pc = "fetching"
    /\ LoopFree(t)
    /\ store' = [ store EXCEPT !.log = Append(@, "failed") ]
    /\ task' = [ task EXCEPT ![t] =
                   [ @ EXCEPT !.pc = "done", !.reply = SecretFailureReply(task[t].request.route) ] ]
    /\ blocking' = 0
    /\ UNCHANGED <<secret_cache, arrivals, callVars, session, jwtVars, poolVars, docVars, toolVars>>

\* call_agent_async returns or raises and the handler answers; upstream is
\* the number of FusefyAPITools calls the run made for the agent's tool calls
\* (router.py lines 86-105)
AgentDone(t) ==
    /\ task[t].pc = "agent"
    /\ LoopFree(t)
    /\ \E raised \in BOOLEAN, tool_calls \in ToolCallCounts :
        task' = [ task EXCEPT ![t] =
                    [ @ EXCEPT !.pc = "done", !.upstream = tool_calls,
                               !.reply = AgentReply(task[t].request.route, raised) ] ]
    /\ UNCHANGED <<secret_cache, store, blocking, arrivals, callVars, session, jwtVars, poolVars, docVars, toolVars>>

\* the response has been sent and the task ends
Depart(t) ==
    /\ task[t].pc = "done"
    /\ LoopFree(t)
    /\ task' = [ task EXCEPT ![t] = IdleTask ]
    /\ UNCHANGED <<secret_cache, store, blocking, arrivals, callVars, session, jwtVars, poolVars, docVars, toolVars>>

NextRoutes ==
    \E t \in Tasks :
        \/ Arrive(t)
        \/ Handle(t)
        \/ FetchAnswer(t)
        \/ FetchFails(t)
        \/ AgentDone(t)
        \/ Depart(t)

SpecRoutes == Init /\ [][NextRoutes]_vars

(***************************************************************************)
(* SpecPool: get_session and close_session called from concurrent tasks.   *)
(***************************************************************************)
\* lines 66-75 of call_fusefy_api: the attempt takes the shared session and
\* starts its request on it; get_session has no suspension point
Acquire(u) ==
    /\ user[u].pc = "idle"
    /\ get_session(session).created <= MaxSessions
    /\ session' = get_session(session)
    /\ user' = [ user EXCEPT ![u] = [ pc |-> "inflight", ref |-> session'.ref ] ]
    /\ teardown' = [ teardown EXCEPT !.late = @ \/ teardown.begun ]
    /\ UNCHANGED <<closer, callVars, jwtVars, routeVars, docVars, toolVars>>

\* the request ends: with the upstream's response, or, when its session was
\* closed under it, with the connection torn down and the response lost
Respond(u) ==
    /\ user[u].pc = "inflight"
    /\ user' = [ user EXCEPT ![u] =
                   [ @ EXCEPT !.pc = IF user[u].ref \in session.closed
                                     THEN "lost" ELSE "answered" ] ]
    /\ UNCHANGED <<session, closer, teardown, callVars, jwtVars, routeVars, docVars, toolVars>>

\* the attempt is over
Release(u) ==
    /\ user[u].pc \in {"answered", "lost"}
    /\ user' = [ user EXCEPT ![u] = IdleUser ]
    /\ UNCHANGED <<session, closer, teardown, callVars, jwtVars, routeVars, docVars, toolVars>>

\* close_session from its start to its first suspension.  Whether
\* `await cls._session.close()` suspends depends on the aiohttp release and on
\* the connections open: when it does not, line 47 runs in the same step.
CloseBegin(c) ==
    /\ closer[c] = "idle"
    /\ IF ShouldClose(session)
       THEN \E suspends \in BOOLEAN :
               /\ session' = IF suspends THEN session_close(session)
                             ELSE clear_reference(session_close(session))
               /\ closer' = [ closer EXCEPT ![c] = IF suspends THEN "awaiting" ELSE "done" ]
               /\ teardown' = [ teardown EXCEPT
                                  !.begun = TRUE,
                                  !.closes[session.ref] = @ + 1,
                                  !.log = Append(@, [ found |-> session.ref,
                                                      open |-> session.ref \in Live(session),
                                                      closed |-> TRUE ]) ]
       ELSE /\ closer' = [ closer EXCEPT ![c] = "done" ]
            /\ teardown' = [ teardown EXCEPT
                               !.begun = TRUE,
                               !.log = Append(@, [ found |-> session.ref,
                                                   open |-> session.ref \in Live(session),
                                                   closed |-> FALSE ]) ]
            /\ UNCHANGED session
    /\ UNCHANGED <<user, callVars, jwtVars, routeVars, docVars, toolVars>>

\* close() returns to the suspended close_session, which runs line 47
CloseResume(c) ==
    /\ closer[c] = "awaiting"
    /\ session' = clear_reference(session)
    /\ closer' = [ closer EXCEPT ![c] = "done" ]
    /\ UNCHANGED <<user, teardown, callVars, jwtVars, routeVars, docVars, toolVars>>

NextPool ==
    \/ \E u \in Users : Acquire(u) \/ Respond(u) \/ Release(u)
    \/ \E c \in Closers : CloseBegin(c) \/ CloseResume(c)

SpecPool == Init /\ [][NextPool]_vars

(***************************************************************************)
(* SpecCatalog: list_available_endpoints on any API description.           *)
(***************************************************************************)
InitCatalog ==
    /\ AdapterIdle /\ PoolIdle /\ JwtIdle /\ RoutesIdle /\ ToolsIdle
    /\ docs \in ApiDescriptions
    /\ listing = NoListing

ListCall ==
    /\ listing.kind = "none"
    /\ listing' = list_available_endpoints(docs)
    /\ UNCHANGED <<callVars, session, jwtVars, routeVars, poolVars, docs, toolVars>>

NextCatalog == ListCall

SpecCatalog == InitCatalog /\ [][NextCatalog]_vars

(***************************************************************************)
(* SpecTools: one tool call of the model, executed by either executor.     *)
(***************************************************************************)
InitTools ==
    /\ AdapterIdle /\ PoolIdle /\ JwtIdle /\ RoutesIdle /\ DocsIdle
    /\ tool_call \in { c \in ToolCalls : WellFormedToolCall(c) }
    /\ executed = NotExecuted

RouterExecutesTool ==
    /\ tool_call.via = CALL_AGENT_ASYNC
    /\ executed.kind = "none"
    /\ \E outcome \in FunctionOutcomes(tool_call.name, InjectToken(tool_call).has_token) :
        executed' = call_agent_tool(tool_call, outcome)
    /\ UNCHANGED <<callVars, session, jwtVars, routeVars, poolVars, docVars, tool_call>>

AgentExecutesTool ==
    /\ tool_call.via = EXECUTE_FUSEFY_TOOL
    /\ executed.kind = "none"
    /\ \E outcome \in FunctionOutcomes(tool_call.name, tool_call.has_token) :
        executed' = execute_fusefy_tool(tool_call, outcome)
    /\ UNCHANGED <<callVars, session, jwtVars, routeVars, poolVars, docVars, tool_call>>

NextTools == RouterExecutesTool \/ AgentExecutesTool

SpecTools == InitTools /\ [][NextTools]_vars

(***************************************************************************)
(* Properties.                                                             *)
(***************************************************************************)
CanonicalOperations == {"list", "get", "create", "update", "delete"}
ItemOperations == {"get", "update", "delete"}
CollectionOperations == {"list", "create"}
Finished == pc \in {"returned", "raised"}
ByManage == tool.fn \in ManageFunctions
IsPrefixOf(p, q) == Len(p) <= Len(q) /\ SubSeq(q, 1, Len(p)) = p
HeaderKeys(r) == { h[1] : h \in r.headers }
DataNameX == "{\"name\":\"x\"}"

\* C1: for every manage_* function and each of the five operations, every
\* request the call issues has method GET for list and get, POST for create,
\* PUT for update and DELETE for delete, goes to a path under that function's
\* fixed prefix and carries the call's data as its JSON body; a finished call
\* has issued a request.
ExpectedVerb(operation) ==
    IF operation \in {"list", "get"} THEN "GET"
    ELSE IF operation = "create" THEN "POST"
    ELSE IF operation = "update" THEN "PUT"
    ELSE "DELETE"

C1_ManageVerbAndPrefix ==
    (ByManage /\ tool.operation \in CanonicalOperations) =>
        /\ Finished => Len(sent) >= 1
        /\ \A i \in 1..Len(sent) :
            /\ sent[i].method = ExpectedVerb(tool.operation)
            /\ IsPrefixOf(ManageEndpoint(tool.fn), sent[i].path)
            /\ tool.fn = "manage_controls" => IsPrefixOf(<<"/", "controls">>, sent[i].path)
            /\ tool.fn = "manage_grading_types" =>
                   IsPrefixOf(<<"/", "grading-types">>, sent[i].path)
            /\ sent[i].json = tool.data
            /\ sent[i].base = BASE_URL

C1_Witness ==
    /\ pc = "returned"
    /\ tool.fn = "manage_controls" /\ tool.operation = "create" /\ tool.data = DataNameX
    /\ Len(sent) = 1
    /\ sent[1].method = "POST" /\ sent[1].path = <<"/", "controls">>
    /\ sent[1].json = DataNameX

\* C2: the path of every request a manage_* call issues is the prefix followed
\* by "/" and the resource id for get, update and delete with a resource id,
\* and exactly the prefix for list and create, whatever resource id was given.
C2_ManagePath ==
    ByManage =>
        \A i \in 1..Len(sent) :
            /\ (tool.operation \in ItemOperations /\ Truthy(tool.resource_id)) =>
                   sent[i].path = ManageEndpoint(tool.fn) \o <<"/", tool.resource_id>>
            /\ tool.operation \in CollectionOperations =>
                   sent[i].path = ManageEndpoint(tool.fn)

C2_Witness ==
    /\ pc = "returned"
    /\ tool.fn = "manage_frameworks" /\ tool.operation = "list" /\ tool.resource_id = "fw-7"
    /\ Len(sent) = 1
    /\ sent[1].path = <<"/", "frameworks">>

\* C3: every request issued for a call with a token carries exactly that
\* token under the header key "token" and has no "Authorization" header; a
\* request issued for a call without a token has no "token" header.
C3_TokenHeader ==
    \A i \in 1..Len(sent) :
        /\ "Authorization" \notin HeaderKeys(sent[i])
        /\ IF Truthy(args.token)
           THEN { h \in sent[i].headers : h[1] = "token" } = { <<"token", args.token>> }
           ELSE "token" \notin HeaderKeys(sent[i])

C3_Witness ==
    /\ Len(sent) = 1
    /\ args.token = "t"
    /\ sent[1].method = "GET"
    /\ sent[1].path = <<"/", "frameworks", "/", "fw-7">>
    /\ <<"token", "t">> \in sent[1].headers

\* C4: every envelope handed to the caller, the synthetic one of a local fault
\* included, has success = TRUE exactly when its status is in 200..299.
C4_SuccessIffStatus2xx ==
    result.kind = "envelope" =>
        (result.success <=> (result.status >= 200 /\ result.status <= 299))

C4_Witness ==
    /\ pc = "returned"
    /\ result.kind = "envelope"
    /\ result.status = 299
    /\ result.success

\* C5: the error message of an envelope built from a response is fixed by the
\* response status alone: the authentication-failure message for 401 whatever
\* the body, "API error: <status>" for any other status >= 400, and no error
\* message for a status below 400.
C5_ErrorByStatus ==
    (response.received /\ result.kind = "envelope") =>
        /\ response.status = 401 => result.error = <<AUTH_FAILED_MESSAGE>>
        /\ response.status = 400 => result.error = <<"API error: 400">>
        /\ response.status = 503 => result.error = <<"API error: 503">>
        /\ (response.status >= 400 /\ response.status # 401) =>
               result.error = <<"API error: " \o ToString(response.status)>>
        /\ response.status < 400 => result.error = NoError

C5_Witness ==
    /\ pc = "returned"
    /\ response.received /\ response.status = 401 /\ response.text = <<"[", "]">>
    /\ result.error = <<AUTH_FAILED_MESSAGE>>

\* C6: a response whose body is not JSON makes the call return (not raise) an
\* envelope whose data wraps the raw body text, with the response's status
\* and success derived from it; an empty body gives the empty object as data.
C6_NonJsonBodyWrapped ==
    response.received =>
        /\ pc = "returned" /\ result.kind = "envelope"
        /\ result.status = response.status
        /\ result.success <=> (response.status >= 200 /\ response.status <= 299)
        /\ response.text = <<>> => result.data = EmptyObject
        /\ (response.text # <<>> /\ ~IsJson(response.text)) =>
               result.data = JsonValue("raw_response", <<>>, response.text)

C6_Witness ==
    /\ pc = "returned"
    /\ response.received /\ response.status = 503 /\ response.text = <<"]", "1">>
    /\ result.kind = "envelope"
    /\ result.data.tag = "raw_response" /\ result.data.raw = <<"]", "1">>
    /\ ~result.success

\* C7: an invocation that met N < MAX_RETRIES transport failures has not given
\* up: once finished it has returned an envelope, and when the transport then
\* delivered a response that envelope is the response's, after N + 1 <=
\* MAX_RETRIES requests; and an invocation in progress eventually finishes.
C7_RetryThenSucceed ==
    /\ []((Finished /\ fails < MAX_RETRIES) =>
            /\ pc = "returned" /\ result.kind = "envelope"
            /\ response.received =>
                /\ result.status = response.status
                /\ result.success <=> (response.status >= 200 /\ response.status <= 299)
                /\ Len(sent) = fails + 1
                /\ Len(sent) <= MAX_RETRIES)
    /\ (pc \in {"attempt", "sleeping"}) ~> Finished

C7_Witness ==
    /\ pc = "returned"
    /\ fails = 2
    /\ response.received /\ response.status = 200
    /\ result.kind = "envelope" /\ result.success
    /\ Len(sent) = 3
    /\ slept = <<1, 2>>

\* C8: an invocation whose every attempt meets a transport failure surfaces
\* the failure after exactly MAX_RETRIES requests: it never issues one more,
\* and it is still attempting or sleeping while fewer have been issued.
C8_ExactlyMaxRetries ==
    /\ Len(sent) <= MAX_RETRIES
    /\ pc = "raised" =>
        /\ Len(sent) = MAX_RETRIES /\ fails = MAX_RETRIES
        /\ attempt_number = MAX_RETRIES
        /\ result.kind = "exception" /\ result.exc \in TransportErrors
    /\ (pc # "idle" /\ fails = Len(sent) /\ fails < MAX_RETRIES) =>
           pc \in {"attempt", "sleeping"}
    /\ (pc # "idle" /\ fails = Len(sent) /\ fails = MAX_RETRIES) => pc = "raised"

C8_Witness ==
    /\ pc = "raised"
    /\ fails = 3 /\ Len(sent) = 3
    /\ result.kind = "exception" /\ result.exc = "aiohttp.ClientError"

\* C9: a response with status >= 400 ends the invocation: it is returned at
\* once, no request follows the one it answered (one request when no transport
\* failure came before), and the failed envelope carries the response's status
\* and its parsed body.
C9_HttpErrorNotRetried ==
    (response.received /\ response.status >= 400) =>
        /\ pc = "returned"
        /\ Len(sent) = fails + 1
        /\ attempt_number = Len(sent)
        /\ fails = 0 => (Len(sent) = 1 /\ slept = <<>>)
        /\ result.kind = "envelope" /\ ~result.success
        /\ result.status = response.status
        /\ result.data = ResponseData(response.text)
        /\ response.text = <<"[", "]">> => result.data = JsonValue("array", <<>>, <<>>)

C9_Witness ==
    /\ pc = "returned"
    /\ response.received /\ response.status = 503 /\ response.text = <<"[", "]">>
    /\ Len(sent) = 1 /\ fails = 0
    /\ result.status = 503 /\ ~result.success

\* C10: the adapter never hands an exception to its caller: every finished
\* invocation that got no response has returned a synthetic failed envelope
\* with status 500.
C10_NeverRaises ==
    Finished =>
        /\ pc = "returned" /\ result.kind = "envelope"
        /\ ~response.received => (result.status = 500 /\ ~result.success)

\* C11: an attempt that met a timeout of the shared session (connect or
\* total) is retried like a connection error: the invocation sleeps before
\* the next attempt, or gives up only at attempt MAX_RETRIES, and the timeout
\* is not turned into an envelope.
SessionTimeoutExceptions == { TimeoutException(kind) : kind \in SessionTimeouts }

C11_TimeoutRetried ==
    met \in SessionTimeoutExceptions =>
        /\ result.kind # "envelope"
        /\ IF attempt_number < MAX_RETRIES THEN pc = "sleeping" ELSE pc = "raised"

(***************************************************************************)
(* validators.ResourceOperation: the two field validators, as the set of   *)
(* requests they raise ValueError for.  _manage_resource imports the class *)
(* and never instantiates it.                                              *)
(***************************************************************************)
ViolatesRequiredFields(operation, resource_id, data) ==
    \/ operation \in {"get", "update", "delete"} /\ ~Truthy(resource_id)
    \/ operation \in {"create", "update"} /\ ~Truthy(data)

\* C18: a manage_* request that violates the required-field rule (get, update
\* or delete without resource_id; create or update without payload) causes no
\* request to the upstream API.
C18_ViolationNoNetworkCall ==
    (ByManage /\ ViolatesRequiredFields(tool.operation, tool.resource_id, tool.data)) =>
        sent = <<>>

\* C14: verify_jwt_token hands back a result for every token and secret and
\* never raises; the result is valid only for a well-formed token whose header
\* names HS256, whose signature was made with the secret and which has not
\* expired; a malformed, wrongly signed or expired token gets valid = false
\* with an error text that begins "Token verification failed".
DecodesUnderHS256(token, secret) ==
    /\ token.text = JwtText
    /\ token.alg = "HS256"
    /\ secret \in SecretValues /\ token.key = secret
    /\ ~token.expired

C14_VerifyFailsClosed ==
    jwt_out.kind # "none" =>
        /\ jwt_out.kind = "returned"
        /\ jwt_out.valid <=> DecodesUnderHS256(jwt_in.token, jwt_in.secret)
        /\ ~jwt_out.valid =>
               /\ Len(jwt_out.error) > 0
               /\ jwt_out.error[1] = "Token verification failed: "

\* an expired token signed with the right key under HS256 was refused
C14_Witness ==
    /\ jwt_in.token = Jwt("HS256", "s1", TRUE)
    /\ jwt_in.secret = "s1"
    /\ jwt_out.kind = "returned"
    /\ ~jwt_out.valid

StoreFailures == Cardinality({ i \in DOMAIN store.log : store.log[i] = "failed" })
Resolved(t) == task[t].secret # None

C13_StoreContactedOnce == store.calls <= 1

\* C13 amended: the store is contacted by every invocation until one fetch
\* succeeds; after the first successful fetch it is never contacted again, and
\* every invocation that returns a secret returns the value of that fetch.
C13_FetchedOnceAfterSuccess ==
    /\ \A i \in DOMAIN store.log :
           store.log[i] # "failed" => (i = Len(store.log) /\ store.calls = i)
    /\ secret_cache # None <=> (store.log # <<>> /\ store.log[Len(store.log)] # "failed")
    /\ \A t \in Tasks :
           Resolved(t) => (store.log # <<>> /\ task[t].secret = store.log[Len(store.log)])

\* the first fetch failed, the second succeeded, and a request accepted after
\* that got the memoized secret without a third contact
C13_Witness ==
    /\ Len(store.log) = 2
    /\ store.log[1] = "failed"
    /\ store.log[2] # "failed"
    /\ store.calls = 2
    /\ \E t \in Tasks : Resolved(t) /\ ~task[t].cold_at_entry

TokenRejected(t) ==
    /\ task[t].pc = "done"
    /\ task[t].verifications > 0
    /\ ~task[t].verification.valid

\* C19: on every route that takes a token, a token that fails verification is
\* answered with HTTP 401 and a descriptive reason, after one verification.
C19_InvalidTokenIs401 ==
    \A t \in Tasks :
        TokenRejected(t) =>
            /\ task[t].reply.status = 401
            /\ task[t].reply.error # <<>>
            /\ task[t].verifications = 1

C15_AtMostOneLiveSession == Cardinality(Live(session)) <= 1

\* C16: no session is closed twice; a close_session that finds no session or
\* a closed one closes nothing, and one that finds an open session closes it
\* once.
C16_ClosedExactlyOnce ==
    /\ \A id \in 1..MaxSessions :
           /\ teardown.closes[id] <= 1
           /\ teardown.closes[id] = 1 <=> id \in session.closed
    /\ \A i \in DOMAIN teardown.log :
           LET call == teardown.log[i]
           IN  /\ call.found = 0 => ~call.closed
               /\ call.closed <=> call.open

\* close_session ran before any session existed, then closed the session
\* that was created, then ran again without closing anything
C16_Witness ==
    /\ Len(teardown.log) = 3
    /\ teardown.log[1].found = 0
    /\ teardown.log[2].closed
    /\ ~teardown.log[3].closed
    /\ teardown.closes[1] = 1
    /\ \A c \in Closers : closer[c] = "done"

\* C17: close_session never closes a session that a request in flight is
\* using, and once a close_session has begun get_session hands out no session.
C17_GracefulShutdown ==
    /\ \A u \in Users : user[u].pc = "inflight" => user[u].ref \notin session.closed
    /\ \A u \in Users : user[u].pc # "lost"
    /\ ~teardown.late

Clamp(x) == Max(WAIT_MIN, Min(x, WAIT_MAX))
NonDecreasing(seq) == \A k \in 2..Len(seq) : seq[k - 1] <= seq[k]

\* C24 as stated: the wait before retry k, which follows the failure of
\* attempt number k, is RETRY_DELAY * 2^k clamped to [1, 10].
C24_WaitTwoToTheAttempt ==
    \A k \in DOMAIN slept : slept[k] = Clamp(RETRY_DELAY * Pow2(k))

\* C24 amended: the wait before retry k is RETRY_DELAY * 2^(k-1) clamped to
\* [1, 10] (1 s, then 2 s); the waits of one invocation are non-decreasing and
\* none exceeds 10 s, and the same holds of the wait of every attempt number.
C24_WaitExponentialCapped ==
    /\ \A k \in DOMAIN slept :
           /\ slept[k] = Clamp(RETRY_DELAY * Pow2(k - 1))
           /\ slept[k] <= WAIT_MAX
    /\ NonDecreasing(slept)
    /\ \A n \in 1..MaxAttemptNumber :
           /\ wait_exponential(n) = Clamp(RETRY_DELAY * Pow2(n - 1))
           /\ wait_exponential(n) <= WAIT_MAX
           /\ n > 1 => wait_exponential(n - 1) <= wait_exponential(n)
    /\ wait_exponential(MaxAttemptNumber) = WAIT_MAX

\* an invocation slept before its second and before its third attempt
C24_Witness ==
    /\ attempt_number = MAX_RETRIES
    /\ slept = <<1, 2>>

\* C28: the path of every request is the one the upper-cased method gives:
\* it does not depend on the letter case of the method argument.
C28_PathIgnoresMethodCase ==
    \A i \in DOMAIN sent :
        sent[i].path = BuildEndpoint(args.endpoint, upper(args.method), args.resource_id)

\* C29: a manage_* call whose operation is not one of list, get, create,
\* update, delete issues no upstream request.
C29_UnknownOperationNoCall ==
    (ByManage /\ tool.operation \notin CanonicalOperations) => sent = <<>>

\* C27: every session get_session constructed is still referenced by
\* SessionManager._session or has been closed.
C27_NoOrphanedSession ==
    \A id \in Live(session) : id = session.ref

\* C23: no request task ever holds the event loop: whatever one task is
\* doing, every other task can be scheduled.
C23_LoopNeverBlocked ==
    \A t \in Tasks : LoopFree(t)

SideEffecting(method) == upper(method) \in {"POST", "PUT", "DELETE"}

\* C26: the upstream processes the request of one invocation with a
\* side-effecting method (POST, PUT, DELETE) at most once.
C26_ProcessedAtMostOnce ==
    (pc # "idle" /\ SideEffecting(args.method)) => processed <= 1

\* C22: a POST /test-api-connection request whose token verified valid has
\* called the upstream API when it ends.
C22_ProbeCallsUpstream ==
    \A t \in Tasks :
        ( /\ task[t].pc = "done"
          /\ task[t].request.route = TEST_API_CONNECTION
          /\ task[t].verification.valid ) => task[t].upstream >= 1

\* C21: every get/post/put/delete operation of the API description is in the
\* output, grouped under its own first declared tag, or under "general" when
\* it declares none, whether or not it shares its path with other operations.
C21_GroupedByOwnTag ==
    listing.kind = "summary" =>
        \A i \in DOMAIN docs.paths : \A j \in DOMAIN docs.paths[i] :
            docs.paths[i][j].method \in HttpMethods =>
                [ category |-> CategoryOfOperation(docs.paths[i], j), path |-> i,
                  method |-> upper(docs.paths[i][j].method) ] \in listing.grouped

\* C25: every FusefyAPITools function call_agent_async invokes for a tool
\* call gets the request's verified token as its 'token' argument.
C25_ToolGetsVerifiedToken ==
    (tool_call.via = CALL_AGENT_ASYNC /\ executed.invoked) =>
        executed.passed_token = tool_call.auth_token

\* C30: execute_fusefy_tool always hands back a result; it invokes a tool
\* function only when the arguments hold a non-empty token, and answers a
\* call without one with status 401.
C30_ToolNeedsToken ==
    (tool_call.via = EXECUTE_FUSEFY_TOOL /\ executed.kind # "none") =>
        /\ executed.kind = "returned"
        /\ executed.invoked =>
               /\ tool_call.has_token
               /\ tool_call.token \notin {None, ""}
               /\ executed.passed_token = tool_call.token
        /\ (~tool_call.has_token \/ tool_call.token \in {None, ""}) =>
               /\ ~executed.invoked
               /\ executed.status = 401
               /\ executed.error # <<>>

\* a call of manage_frameworks whose arguments had no token was answered
\* with status 401 and the function was not invoked
C30_Witness ==
    /\ tool_call.via = EXECUTE_FUSEFY_TOOL
    /\ tool_call.name = "manage_frameworks"
    /\ ~tool_call.has_token
    /\ executed.kind = "returned"
    /\ executed.status = 401
    /\ ~executed.invoked

====
